---- MODULE Spec2Model ----
(***************************************************************************)
(* Model of core/information_hierarchy.py: the three-tier information      *)
(* hierarchy manager (source registry, tiered query, privacy validator,    *)
(* audit log).                                                             *)
(*                                                                         *)
(* Python values are represented as follows.                               *)
(*   Optional[x]   None is <<>>, a present value x is <<x>>                *)
(*   dict          a sequence of values in insertion order, keys unique    *)
(*   list          a sequence                                              *)
(*   dataclass     a record with the dataclass' field names                *)
(* Free text (content, source_name, query_text, timestamps, the context    *)
(* hash) takes no part in any branch of the code and is left out.          *)
(***************************************************************************)
EXTENDS Integers, Sequences, FiniteSets, TLC

(* ------------------------------------------------------------------ *)
(* Bounds of the model                                                 *)
(* ------------------------------------------------------------------ *)

\* max_items_per_level ranges over -MaxNegCap .. MaxCap
MaxCap == 2
MaxNegCap == 1

(* ------------------------------------------------------------------ *)
(* Data model                                                          *)
(* ------------------------------------------------------------------ *)

FARMER_SPECIFIC == "FARMER"
COUNTRY_SPECIFIC == "COUNTRY"
GLOBAL == "GLOBAL"
InformationRelevance == {FARMER_SPECIFIC, COUNTRY_SPECIFIC, GLOBAL}

\* enum RelevancePriority: 1 is the highest priority
RelevancePriority(tier) ==
    CASE tier = FARMER_SPECIFIC -> 1
      [] tier = COUNTRY_SPECIFIC -> 2
      [] tier = GLOBAL -> 3

None == <<>>
Some(x) == <<x>>

\* dataclass InformationSource
InformationSource(id, type, farmer, country, global) ==
    [source_id |-> id, source_type |-> type,
     can_access_farmer_data |-> farmer,
     can_access_country_data |-> country,
     can_access_global_data |-> global]

\* dataclass InformationItem; producer is the source on whose loop iteration
\* the item was retrieved (history field, not a field of the dataclass)
InformationItem(rel, farmer, country, type, source) ==
    [relevance |-> rel, farmer_id |-> farmer, country_code |-> country,
     source_type |-> type, producer |-> source]

\* dataclass InformationQuery with its LocalizationContext
InformationQuery(farmer, country, levels, cap) ==
    [context |-> [farmer_id |-> farmer, country_code |-> country],
     required_relevance_levels |-> levels,
     max_items_per_level |-> cap]

\* dataclass InformationResult as constructed at the top of query_information
InformationResult(q) ==
    [query |-> q, farmer_items |-> <<>>, country_items |-> <<>>,
     global_items |-> <<>>, metadata |-> None]

\* bool(x) of an Optional[int]: None and 0 are falsy
TruthyInt(opt) == opt # None /\ opt[1] # 0

\* bool(s) of a str: the empty string is falsy
TruthyStr(s) == s # ""

\* the farmer id of the module's example usage
ExampleFarmerId == 123

(* ------------------------------------------------------------------ *)
(* Source registry                                                     *)
(* ------------------------------------------------------------------ *)

\* variant: the source is added without looking for its id
register_source_Appends(srcs, source) == Append(srcs, source)

\* variant: an existing id is removed and the source added last
register_source_MovesToEnd(srcs, source) ==
    Append(SelectSeq(srcs, LAMBDA x : x.source_id # source.source_id), source)

\* self.sources[source.source_id] = source on an insertion-ordered dict:
\* an existing key keeps its position, a new key goes last
register_source(srcs, source) ==
    IF \E i \in 1..Len(srcs) : srcs[i].source_id = source.source_id
    THEN [i \in 1..Len(srcs) |->
            IF srcs[i].source_id = source.source_id THEN source ELSE srcs[i]]
    ELSE Append(srcs, source)

\* __init__: an empty dict, then the three default registrations
_register_default_sources(srcs) ==
    register_source(
      register_source(
        register_source(srcs,
          InformationSource("farmer_db", "database", TRUE, TRUE, FALSE)),
        InformationSource("rag_knowledge", "rag", FALSE, TRUE, TRUE)),
      InformationSource("external_search", "external", FALSE, FALSE, TRUE))

\* the dict comprehension over self.sources.items(): one entry per key
get_source_capabilities(srcs) ==
    [id \in { srcs[i].source_id : i \in 1..Len(srcs) } |->
        LET i == CHOOSE k \in 1..Len(srcs) :
                    /\ srcs[k].source_id = id
                    /\ \A j \in (k + 1)..Len(srcs) : srcs[j].source_id # id
        IN [farmer_data |-> srcs[i].can_access_farmer_data,
            country_data |-> srcs[i].can_access_country_data,
            global_data |-> srcs[i].can_access_global_data,
            source_type |-> srcs[i].source_type]]

(* ------------------------------------------------------------------ *)
(* Privacy validator                                                   *)
(* ------------------------------------------------------------------ *)

\* variant: the GLOBAL tier is checked against its flag as well
validate_privacy_compliance_ChecksGlobal(item, source) ==
    IF item.relevance = FARMER_SPECIFIC /\ ~source.can_access_farmer_data
    THEN FALSE
    ELSE IF item.relevance = COUNTRY_SPECIFIC /\ ~source.can_access_country_data
         THEN FALSE
         ELSE IF item.relevance = GLOBAL /\ ~source.can_access_global_data
              THEN FALSE
              ELSE TRUE

validate_privacy_compliance(item, source) ==
    IF item.relevance = FARMER_SPECIFIC /\ ~source.can_access_farmer_data
    THEN FALSE
    ELSE IF item.relevance = COUNTRY_SPECIFIC /\ ~source.can_access_country_data
         THEN FALSE
         ELSE TRUE

(* ------------------------------------------------------------------ *)
(* Tiered query                                                        *)
(* ------------------------------------------------------------------ *)

\* the mock retrievals: one item each, of the tier of the loop that calls it
_mock_farmer_database_query(q, source) ==
    << InformationItem(FARMER_SPECIFIC, q.context.farmer_id, None,
                       "database", source) >>

_mock_country_rag_query(q, source) ==
    << InformationItem(COUNTRY_SPECIFIC, None, Some(q.context.country_code),
                       "rag", source) >>

_mock_global_query(q, source) ==
    << InformationItem(GLOBAL, None, None, "rag", source) >>

\* variant: the capability flags are not consulted
Eligible_IgnoresCapability(tier, source, q) ==
    CASE tier = FARMER_SPECIFIC -> TruthyInt(q.context.farmer_id)
      [] tier = COUNTRY_SPECIFIC -> TruthyStr(q.context.country_code)
      [] tier = GLOBAL -> TRUE

\* variant: the farmer tier does not require context.farmer_id
Eligible_IgnoresFarmerId(tier, source, q) ==
    CASE tier = FARMER_SPECIFIC -> source.can_access_farmer_data
      [] tier = COUNTRY_SPECIFIC ->
           source.can_access_country_data /\ TruthyStr(q.context.country_code)
      [] tier = GLOBAL -> source.can_access_global_data

\* the outer `if` of each tier loop: capability flag and context precondition
Eligible(tier, source, q) ==
    CASE tier = FARMER_SPECIFIC ->
           source.can_access_farmer_data /\ TruthyInt(q.context.farmer_id)
      [] tier = COUNTRY_SPECIFIC ->
           source.can_access_country_data /\ TruthyStr(q.context.country_code)
      [] tier = GLOBAL ->
           source.can_access_global_data

\* the inner `if` of each tier loop: the source_type the retrieval is made for
KindMatches(tier, source) ==
    CASE tier = FARMER_SPECIFIC -> source.source_type = "database"
      [] tier = COUNTRY_SPECIFIC -> source.source_type = "rag"
      [] tier = GLOBAL -> source.source_type \in {"rag", "external"}

\* whether the loop body calls the retrieval for this source
Retrieves(tier, source, q) == Eligible(tier, source, q) /\ KindMatches(tier, source)

\* the retrieval call of the loop body
Retrieve(tier, source, q) ==
    CASE tier = FARMER_SPECIFIC -> _mock_farmer_database_query(q, source)
      [] tier = COUNTRY_SPECIFIC -> _mock_country_rag_query(q, source)
      [] tier = GLOBAL -> _mock_global_query(q, source)

\* variant: the retrieved items are put in front of the list
LoopBody_Prepends(tier, its, source, q) ==
    IF Retrieves(tier, source, q) THEN Retrieve(tier, source, q) \o its ELSE its

\* one iteration of a tier loop that does not raise: items.extend(...)
LoopBody(tier, its, source, q) ==
    IF Retrieves(tier, source, q) THEN its \o Retrieve(tier, source, q) ELSE its

\* a whole tier loop over the registry, no retrieval raising
RECURSIVE QueryTierFrom(_, _, _, _, _)
QueryTierFrom(tier, srcs, q, i, its) ==
    IF i > Len(srcs) THEN its
    ELSE QueryTierFrom(tier, srcs, q, i + 1, LoopBody(tier, its, srcs[i], q))

_query_farmer_specific(srcs, q) == QueryTierFrom(FARMER_SPECIFIC, srcs, q, 1, <<>>)
_query_country_specific(srcs, q) == QueryTierFrom(COUNTRY_SPECIFIC, srcs, q, 1, <<>>)
_query_global(srcs, q) == QueryTierFrom(GLOBAL, srcs, q, 1, <<>>)

\* a retrieval raises when it is made for a source of `faulty`; nothing in
\* the tier loops or in query_information catches it
TierRaises(tier, srcs, q, faulty) ==
    \E i \in 1..Len(srcs) :
        Retrieves(tier, srcs[i], q) /\ srcs[i].source_id \in faulty

\* variant: the list is not truncated
SliceTo_Whole(its, n) == its

\* Python's its[:n]
SliceTo(its, n) ==
    IF n >= 0
    THEN SubSeq(its, 1, IF n < Len(its) THEN n ELSE Len(its))
    ELSE SubSeq(its, 1, IF Len(its) + n > 0 THEN Len(its) + n ELSE 0)

\* `if tier_items: sources_used.append(name)`, on the list the loop returned
RecordUsed(used, its, name) == IF its # <<>> THEN Append(used, name) ELSE used

\* variant: the lists are joined lowest priority first
get_all_items_by_priority_GlobalFirst(r) ==
    r.global_items \o r.country_items \o r.farmer_items

get_all_items_by_priority(r) == r.farmer_items \o r.country_items \o r.global_items

\* variant: total_items counts the tiers used instead of the items
Metadata_CountsTiers(r, used) ==
    Some([sources_used |-> used, total_items |-> Len(used)])

\* result.metadata = {...}
Metadata(r, used) ==
    Some([sources_used |-> used,
          total_items |-> Len(get_all_items_by_priority(r))])

\* variant: a query that found nothing is not logged
_log_query_SkipsEmpty(log, r) ==
    IF Len(r.farmer_items) + Len(r.country_items) + Len(r.global_items) = 0
    THEN log
    ELSE Append(log, [farmer_id |-> r.query.context.farmer_id,
                      country |-> r.query.context.country_code,
                      items_found |-> [farmer |-> Len(r.farmer_items),
                                       country |-> Len(r.country_items),
                                       global |-> Len(r.global_items)]])

\* _log_query appends one entry to the log
_log_query(log, r) ==
    Append(log, [farmer_id |-> r.query.context.farmer_id,
                 country |-> r.query.context.country_code,
                 items_found |-> [farmer |-> Len(r.farmer_items),
                                  country |-> Len(r.country_items),
                                  global |-> Len(r.global_items)]])

\* query_information when no retrieval raises: the result it returns
query_information(srcs, q) ==
    LET lv == q.required_relevance_levels
        cap == q.max_items_per_level
        fi == IF FARMER_SPECIFIC \in lv THEN _query_farmer_specific(srcs, q) ELSE <<>>
        ci == IF COUNTRY_SPECIFIC \in lv THEN _query_country_specific(srcs, q) ELSE <<>>
        gi == IF GLOBAL \in lv THEN _query_global(srcs, q) ELSE <<>>
        r0 == InformationResult(q)
        r1 == [r0 EXCEPT !.farmer_items = SliceTo(fi, cap),
                         !.country_items = SliceTo(ci, cap),
                         !.global_items = SliceTo(gi, cap)]
        used == RecordUsed(RecordUsed(RecordUsed(<<>>, fi, "farmer_specific"),
                                      ci, "country_specific"),
                           gi, "global")
    IN [r1 EXCEPT !.metadata = Metadata(r1, used)]

(* ------------------------------------------------------------------ *)
(* State                                                               *)
(* ------------------------------------------------------------------ *)

VARIABLES
    sources,         \* manager.sources, in insertion order
    outcome,         \* of the current query_information call: "none" (no call
                     \* outstanding), "running", "returned", "RetrievalError",
                     \* "RuntimeError" (the exception that left the call)
    query,           \* the argument of the call
    result,          \* the InformationResult of the call
    callLog,         \* audit entries _log_query has emitted during the call
    validatorCalls,  \* <<item, source>> pairs validate_privacy_compliance has run on
    vItem, vSource,  \* arguments of a direct validate_privacy_compliance call
    vRet,            \* its return value, "pending" before the call
    pc,              \* statement the querying thread is at
    iter,            \* dict iterator of the running tier loop: position, and
                     \* the dict's size when the loop began
    items,           \* local list `items` of the running tier loop
    sources_used     \* local list `sources_used` of query_information

vars == <<sources, outcome, query, result, callLog, validatorCalls,
          vItem, vSource, vRet, pc, iter, items, sources_used>>

\* values registered after construction: one id of the defaults, one new id
SourceIds == {"rag_knowledge", "seed_catalog"}
SourceTypes == {"database", "rag", "external", "cache"}
SourceInputs ==
    { InformationSource(id, type, f, c, g) :
        id \in SourceIds, type \in SourceTypes,
        f \in BOOLEAN, c \in BOOLEAN, g \in BOOLEAN }

FarmerIds == {None, Some(0), Some(ExampleFarmerId)}
CountryCodes == {"", "BG"}
CapValues == (0 - MaxNegCap)..MaxCap
QueryInputs ==
    { InformationQuery(f, c, lv, cap) :
        f \in FarmerIds, c \in CountryCodes,
        lv \in SUBSET InformationRelevance, cap \in CapValues }

\* sets of sources whose retrieval raises: none, or one source on every call
FaultInputs == {{}} \cup { {id} : id \in {"farmer_db", "rag_knowledge"} }

NoQuery == InformationQuery(None, "", {}, 0)
NoIter == [pos |-> 0, used |-> 0]

\* InformationHierarchyManager(): the registry after construction
InitManager ==
    /\ sources = _register_default_sources(<<>>)
    /\ outcome = "none"
    /\ query = NoQuery
    /\ result = InformationResult(NoQuery)
    /\ callLog = <<>>
    /\ validatorCalls = {}
    /\ pc = "idle"
    /\ iter = NoIter
    /\ items = <<>>
    /\ sources_used = <<>>

Init ==
    /\ InitManager
    /\ vItem = InformationItem(GLOBAL, None, None, "rag", sources[1])
    /\ vSource = sources[1]
    /\ vRet = "pending"

(* ------------------------------------------------------------------ *)
(* Operations, one call at a time                                      *)
(* ------------------------------------------------------------------ *)

RegisterSource(s) ==
    /\ outcome = "none"
    /\ sources' = register_source(sources, s)
    /\ UNCHANGED <<outcome, query, result, callLog, validatorCalls,
                   vItem, vSource, vRet, pc, iter, items, sources_used>>

\* a whole query_information call. A retrieval that raises is caught nowhere:
\* the exception leaves the call, no result is returned and _log_query is
\* not reached
QueryInformation(q, faulty) ==
    /\ outcome = "none"
    /\ query' = q
    /\ validatorCalls' = {}
    /\ IF \E t \in q.required_relevance_levels : TierRaises(t, sources, q, faulty)
       THEN /\ outcome' = "RetrievalError"
            /\ result' = InformationResult(q)
            /\ callLog' = <<>>
       ELSE /\ outcome' = "returned"
            /\ result' = query_information(sources, q)
            /\ callLog' = _log_query(<<>>, result')
    /\ UNCHANGED <<sources, vItem, vSource, vRet, pc, iter, items, sources_used>>

\* the caller is done with the result (or the exception) of the call
CallerDone ==
    /\ outcome \in {"returned", "RetrievalError", "RuntimeError"}
    /\ pc = "idle"
    /\ outcome' = "none"
    /\ query' = NoQuery
    /\ result' = InformationResult(NoQuery)
    /\ callLog' = <<>>
    /\ validatorCalls' = {}
    /\ UNCHANGED <<sources, vItem, vSource, vRet, pc, iter, items, sources_used>>

Next ==
    \/ \E s \in SourceInputs : RegisterSource(s)
    \/ \E q \in QueryInputs, faulty \in FaultInputs : QueryInformation(q, faulty)
    \/ CallerDone

Spec == Init /\ [][Next]_vars

(* ------------------------------------------------------------------ *)
(* The validator called directly                                       *)
(* ------------------------------------------------------------------ *)

ItemInputs ==
    { InformationItem(rel, None, None, type, _register_default_sources(<<>>)[1]) :
        rel \in InformationRelevance, type \in {"database", "rag"} }

InitValidate ==
    /\ InitManager
    /\ vItem \in ItemInputs
    /\ vSource \in SourceInputs
    /\ vRet = None

ValidatePrivacyCompliance ==
    /\ vRet = None
    /\ vRet' = Some(validate_privacy_compliance(vItem, vSource))
    /\ validatorCalls' = validatorCalls \cup {<<vItem, vSource>>}
    /\ UNCHANGED <<sources, outcome, query, result, callLog, vItem, vSource,
                   pc, iter, items, sources_used>>

NextValidate == ValidatePrivacyCompliance

SpecValidate == InitValidate /\ [][NextValidate]_vars

(* ------------------------------------------------------------------ *)
(* query_information statement by statement, with register_source      *)
(* running in another thread                                           *)
(* ------------------------------------------------------------------ *)

\* sources another thread registers while a query runs
ConcurrentInputs ==
    { s \in SourceInputs :
        /\ s.source_type \in {"database", "rag"}
        /\ s.can_access_farmer_data /\ s.can_access_country_data
        /\ s.can_access_global_data }

IfPc(tier) ==
    CASE tier = FARMER_SPECIFIC -> "if_farmer"
      [] tier = COUNTRY_SPECIFIC -> "if_country"
      [] tier = GLOBAL -> "if_global"

ForPc(tier) ==
    CASE tier = FARMER_SPECIFIC -> "for_farmer"
      [] tier = COUNTRY_SPECIFIC -> "for_country"
      [] tier = GLOBAL -> "for_global"

\* the statement after a tier's block
AfterPc(tier) ==
    CASE tier = FARMER_SPECIFIC -> "if_country"
      [] tier = COUNTRY_SPECIFIC -> "if_global"
      [] tier = GLOBAL -> "metadata"

UsedName(tier) ==
    CASE tier = FARMER_SPECIFIC -> "farmer_specific"
      [] tier = COUNTRY_SPECIFIC -> "country_specific"
      [] tier = GLOBAL -> "global"

\* result.<tier>_items = its
SetTierItems(r, tier, its) ==
    CASE tier = FARMER_SPECIFIC -> [r EXCEPT !.farmer_items = its]
      [] tier = COUNTRY_SPECIFIC -> [r EXCEPT !.country_items = its]
      [] tier = GLOBAL -> [r EXCEPT !.global_items = its]

\* an exception leaves query_information: the frame and its locals are gone
Escapes(exc) ==
    /\ outcome' = exc
    /\ pc' = "idle"
    /\ result' = InformationResult(query)
    /\ iter' = NoIter
    /\ items' = <<>>
    /\ sources_used' = <<>>
    /\ UNCHANGED <<sources, query, callLog, validatorCalls, vItem, vSource, vRet>>

\* query_information is entered: result = InformationResult(query), sources_used = []
Call(q) ==
    /\ outcome = "none"
    /\ pc = "idle"
    /\ outcome' = "running"
    /\ query' = q
    /\ result' = InformationResult(q)
    /\ sources_used' = <<>>
    /\ callLog' = <<>>
    /\ validatorCalls' = {}
    /\ pc' = "if_farmer"
    /\ UNCHANGED <<sources, vItem, vSource, vRet, iter, items>>

\* `if <tier> in query.required_relevance_levels:`; when it is, the tier's
\* function starts: items = [] and the iterator over self.sources.items()
TierTest(tier) ==
    /\ pc = IfPc(tier)
    /\ IF tier \in query.required_relevance_levels
       THEN /\ pc' = ForPc(tier)
            /\ iter' = [pos |-> 1, used |-> Len(sources)]
            /\ items' = <<>>
       ELSE /\ pc' = AfterPc(tier)
            /\ UNCHANGED <<iter, items>>
    /\ UNCHANGED <<sources, outcome, query, result, callLog, validatorCalls,
                   vItem, vSource, vRet, sources_used>>

\* the iterator yields the next entry and the loop body runs, its retrieval
\* (if it makes one) returning
ForNext(tier) ==
    /\ pc = ForPc(tier)
    /\ Len(sources) = iter.used
    /\ iter.pos <= Len(sources)
    /\ items' = LoopBody(tier, items, sources[iter.pos], query)
    /\ iter' = [iter EXCEPT !.pos = iter.pos + 1]
    /\ UNCHANGED <<sources, outcome, query, result, callLog, validatorCalls,
                   vItem, vSource, vRet, pc, sources_used>>

\* the iterator yields the next entry and the retrieval made for it raises
ForRetrievalRaises(tier) ==
    /\ pc = ForPc(tier)
    /\ Len(sources) = iter.used
    /\ iter.pos <= Len(sources)
    /\ Retrieves(tier, sources[iter.pos], query)
    /\ Escapes("RetrievalError")

\* the iterator finds the dict's size changed since the loop began:
\* RuntimeError("dictionary changed size during iteration")
ForSizeChanged(tier) ==
    /\ pc = ForPc(tier)
    /\ Len(sources) # iter.used
    /\ Escapes("RuntimeError")

\* the iterator is exhausted: the tier's function returns items, and
\* query_information stores the truncated list and records the tier
ForExit(tier) ==
    /\ pc = ForPc(tier)
    /\ Len(sources) = iter.used
    /\ iter.pos > Len(sources)
    /\ result' = SetTierItems(result, tier, SliceTo(items, query.max_items_per_level))
    /\ sources_used' = RecordUsed(sources_used, items, UsedName(tier))
    /\ pc' = AfterPc(tier)
    /\ iter' = NoIter
    /\ items' = <<>>
    /\ UNCHANGED <<sources, outcome, query, callLog, validatorCalls,
                   vItem, vSource, vRet>>

\* result.metadata = {...}
SetMetadata ==
    /\ pc = "metadata"
    /\ result' = [result EXCEPT !.metadata = Metadata(result, sources_used)]
    /\ pc' = "log"
    /\ UNCHANGED <<sources, outcome, query, callLog, validatorCalls,
                   vItem, vSource, vRet, iter, items, sources_used>>

\* self._log_query(result)
LogQuery ==
    /\ pc = "log"
    /\ callLog' = _log_query(callLog, result)
    /\ pc' = "return"
    /\ UNCHANGED <<sources, outcome, query, result, validatorCalls,
                   vItem, vSource, vRet, iter, items, sources_used>>

\* return result
Return ==
    /\ pc = "return"
    /\ outcome' = "returned"
    /\ pc' = "idle"
    /\ sources_used' = <<>>
    /\ UNCHANGED <<sources, query, result, callLog, validatorCalls,
                   vItem, vSource, vRet, iter, items>>

\* register_source in another thread, between any two statements of the query
ConcurrentRegister(s) ==
    /\ sources' = register_source(sources, s)
    /\ UNCHANGED <<outcome, query, result, callLog, validatorCalls,
                   vItem, vSource, vRet, pc, iter, items, sources_used>>

NextThreads ==
    \/ \E q \in QueryInputs : Call(q)
    \/ \E tier \in InformationRelevance : TierTest(tier)
    \/ \E tier \in InformationRelevance : ForNext(tier)
    \/ \E tier \in InformationRelevance : ForRetrievalRaises(tier)
    \/ \E tier \in InformationRelevance : ForSizeChanged(tier)
    \/ \E tier \in InformationRelevance : ForExit(tier)
    \/ SetMetadata
    \/ LogQuery
    \/ Return
    \/ CallerDone
    \/ \E s \in ConcurrentInputs : ConcurrentRegister(s)

SpecThreads == Init /\ [][NextThreads]_vars

(* ------------------------------------------------------------------ *)
(* Properties                                                          *)
(* ------------------------------------------------------------------ *)

Range(f) == { f[i] : i \in DOMAIN f }

AllItems(r) == Range(r.farmer_items) \cup Range(r.country_items) \cup Range(r.global_items)

TierNames == {"farmer_specific", "country_specific", "global"}

TierList(r, name) ==
    CASE name = "farmer_specific" -> r.farmer_items
      [] name = "country_specific" -> r.country_items
      [] name = "global" -> r.global_items

Capability(source, tier) ==
    CASE tier = FARMER_SPECIFIC -> source.can_access_farmer_data
      [] tier = COUNTRY_SPECIFIC -> source.can_access_country_data
      [] tier = GLOBAL -> source.can_access_global_data

Returned == outcome = "returned"

\* C1: every item of a returned result has a tier its producing source is
\* flagged for (can_access_farmer_data for FARMER_SPECIFIC, can_access_country_data
\* for COUNTRY_SPECIFIC, can_access_global_data for GLOBAL).
C1_PrivacyInvariant ==
    Returned => \A it \in AllItems(result) : Capability(it.producer, it.relevance)

\* a result with items of all three tiers, from a registry that also holds a
\* database source without the farmer flag
C1_Witness ==
    /\ Returned
    /\ result.farmer_items # <<>>
    /\ result.country_items # <<>>
    /\ result.global_items # <<>>
    /\ \E i \in 1..Len(sources) :
          sources[i].source_type = "database" /\ ~sources[i].can_access_farmer_data

\* C2: every item of a returned result has had validate_privacy_compliance run on
\* it, with its producing source, during the call.
C2_ValidatorRunsOnEveryItem ==
    Returned => \A it \in AllItems(result) : <<it, it.producer>> \in validatorCalls

\* C3: validate_privacy_compliance returns false exactly for a FARMER_SPECIFIC item
\* of a source without can_access_farmer_data and for a COUNTRY_SPECIFIC item of a
\* source without can_access_country_data (never for a GLOBAL item), and the call
\* leaves the item, the source and the registry as they were.
C3_TruthTable ==
    /\ [](vRet # None =>
            vRet = Some(~ \/ ( /\ vItem.relevance = FARMER_SPECIFIC
                               /\ vSource.can_access_farmer_data = FALSE )
                          \/ ( /\ vItem.relevance = COUNTRY_SPECIFIC
                               /\ vSource.can_access_country_data = FALSE )))
    /\ [][vItem' = vItem /\ vSource' = vSource /\ sources' = sources]_vars

\* a GLOBAL item of a source without can_access_global_data was accepted
C3_Witness ==
    /\ vRet = Some(TRUE)
    /\ vItem.relevance = GLOBAL
    /\ ~vSource.can_access_global_data

\* C4: no exception of a retrieval leaves query_information.
C4_NoExceptionEscapes == outcome # "RetrievalError"

\* C5: a returned result of a query without context.farmer_id has no farmer items.
C5_NoFarmerIdNoFarmerItems ==
    (Returned /\ query.context.farmer_id = None) => result.farmer_items = <<>>

\* the farmer tier was asked for, with a positive cap, of a registry holding a
\* farmer-capable database source
C5_Witness ==
    /\ Returned
    /\ query.context.farmer_id = None
    /\ FARMER_SPECIFIC \in query.required_relevance_levels
    /\ query.max_items_per_level > 0
    /\ \E i \in 1..Len(sources) :
          sources[i].source_type = "database" /\ sources[i].can_access_farmer_data

\* C6, as claimed: each tier list is at most max_items_per_level long, whatever
\* the integer max_items_per_level is.
C6_LengthAtMostCap ==
    Returned =>
      \A name \in TierNames : Len(TierList(result, name)) <= query.max_items_per_level

\* C6, amended: each tier list is at most max_items_per_level long when
\* max_items_per_level is not negative.
C6_LengthAtMostNonNegativeCap ==
    (Returned /\ query.max_items_per_level >= 0) =>
      \A name \in TierNames : Len(TierList(result, name)) <= query.max_items_per_level

\* two sources contributed to the global tier and the cap of 1 cut the list
C6_Witness ==
    /\ Returned
    /\ query.max_items_per_level = 1
    /\ Len(_query_global(sources, query)) >= 2
    /\ Len(result.global_items) = 1

\* C7: sources_used names exactly the tiers whose list in the result is not empty.
C7_SourcesUsedIffNonEmpty ==
    Returned =>
      \A name \in TierNames :
        name \in Range(result.metadata[1].sources_used)
          <=> TierList(result, name) # <<>>

\* C8: total_items is the sum of the lengths of the three lists of the result.
C8_TotalItems ==
    Returned =>
      result.metadata[1].total_items =
        Len(result.farmer_items) + Len(result.country_items) + Len(result.global_items)

\* a truncated result with items in more than one tier
C8_Witness ==
    /\ Returned
    /\ query.max_items_per_level = 1
    /\ Len(_query_global(sources, query)) >= 2
    /\ result.farmer_items # <<>>
    /\ result.metadata[1].total_items = 3

InFlight == outcome = "running"

\* C9: a call emits no audit entry before its tiers are queried and its metadata
\* assembled, exactly one (with the lengths of the result's three lists) by the
\* time it returns, and none when an exception leaves it.
C9_AuditOnce ==
    /\ (InFlight /\ pc \notin {"return"}) => callLog = <<>>
    /\ (InFlight /\ pc \in {"log", "return"}) => result.metadata # None
    /\ (pc = "return" \/ Returned) =>
          /\ Len(callLog) = 1
          /\ callLog[1].items_found =
               [farmer |-> Len(result.farmer_items),
                country |-> Len(result.country_items),
                global |-> Len(result.global_items)]
    /\ outcome \in {"RetrievalError", "RuntimeError"} => callLog = <<>>

\* a returned call with one list empty and one tier not asked for
C9_Witness ==
    /\ Returned
    /\ Len(callLog) = 1
    /\ FARMER_SPECIFIC \in query.required_relevance_levels
    /\ result.farmer_items = <<>>
    /\ GLOBAL \notin query.required_relevance_levels
    /\ result.country_items # <<>>

\* C10: no error caused by a concurrent register_source leaves a running query.
C10_NoMutationError == outcome # "RuntimeError"

\* the entries the registry holds under an id
EntriesOf(srcs, id) == { srcs[i] : i \in { k \in 1..Len(srcs) : srcs[k].source_id = id } }

RegisteredIds(srcs) == { srcs[i].source_id : i \in 1..Len(srcs) }

AllSourceIds == SourceIds \cup {"farmer_db", "external_search"}

\* C11: a new manager holds exactly farmer_db, rag_knowledge and external_search;
\* the registry never holds two entries under one id; get_source_capabilities has
\* an entry for exactly the registered ids, with that source's three flags and its
\* source_type; and a register_source call leaves the registered source under its
\* id and every other id's entry as it was.
C11_RegistryByIdLatestWins ==
    /\ RegisteredIds(sources) = {"farmer_db", "rag_knowledge", "external_search"}
    /\ Len(sources) = Cardinality(RegisteredIds(sources))
    /\ [] /\ \A i, j \in 1..Len(sources) :
                sources[i].source_id = sources[j].source_id => i = j
          /\ DOMAIN get_source_capabilities(sources) = RegisteredIds(sources)
          /\ \A i \in 1..Len(sources) :
                get_source_capabilities(sources)[sources[i].source_id] =
                  [farmer_data |-> sources[i].can_access_farmer_data,
                   country_data |-> sources[i].can_access_country_data,
                   global_data |-> sources[i].can_access_global_data,
                   source_type |-> sources[i].source_type]
    /\ [][ sources' # sources =>
             \E s \in SourceInputs :
                /\ EntriesOf(sources', s.source_id) = {s}
                /\ \A id \in AllSourceIds \ {s.source_id} :
                      EntriesOf(sources', id) = EntriesOf(sources, id) ]_vars

\* rag_knowledge was registered again with other flags and a new id was added
C11_Witness ==
    /\ Len(sources) = 4
    /\ sources[2] = InformationSource("rag_knowledge", "cache", TRUE, FALSE, FALSE)
    /\ sources[4].source_id = "seed_catalog"
    /\ get_source_capabilities(sources)["rag_knowledge"].source_type = "cache"

\* C12: get_all_items_by_priority of a returned result is farmer_items, then
\* country_items, then global_items, each in its stored order, so no item of a
\* lower-priority tier precedes an item of a higher-priority tier.
C12_PriorityOrder ==
    Returned =>
      LET all == get_all_items_by_priority(result)
          nf == Len(result.farmer_items)
          nc == Len(result.country_items)
          ng == Len(result.global_items)
      IN /\ Len(all) = nf + nc + ng
         /\ \A k \in 1..nf : all[k] = result.farmer_items[k]
         /\ \A k \in 1..nc : all[nf + k] = result.country_items[k]
         /\ \A k \in 1..ng : all[nf + nc + k] = result.global_items[k]
         /\ \A i, j \in 1..Len(all) :
               i < j => RelevancePriority(all[i].relevance)
                          <= RelevancePriority(all[j].relevance)

\* items of all three tiers, two of them global
C12_Witness ==
    /\ Returned
    /\ Len(result.farmer_items) = 1
    /\ Len(result.country_items) = 1
    /\ Len(result.global_items) = 2
    /\ Len(get_all_items_by_priority(result)) = 4

Producers(its) == { its[k].producer : k \in 1..Len(its) }

TierOfName(name) ==
    CASE name = "farmer_specific" -> FARMER_SPECIFIC
      [] name = "country_specific" -> COUNTRY_SPECIFIC
      [] name = "global" -> GLOBAL

\* the registered sources whose flag for the tier is set, the tier's context
\* precondition holding
EligibleSources(tier, srcs, q) ==
    { srcs[i] : i \in { k \in 1..Len(srcs) : Eligible(tier, srcs[k], q) } }

\* C13: for each required tier the retrieval is made for every registered source
\* whose flag for the tier is set (the tier's context precondition holding) and for
\* no other, whatever the source's kind: the items of the tier's list come from
\* eligible sources only, and from every one of them when the cap leaves room for
\* an item of each.
C13_EligibleByCapabilityOnly ==
    Returned =>
      \A name \in TierNames :
        LET tier == TierOfName(name)
            elig == EligibleSources(tier, sources, query)
        IN tier \in query.required_relevance_levels =>
             /\ Producers(TierList(result, name)) \subseteq elig
             /\ Cardinality(elig) <= query.max_items_per_level =>
                  Producers(TierList(result, name)) = elig

RECURSIVE Flatten(_)
Flatten(seqs) == IF seqs = <<>> THEN <<>> ELSE Head(seqs) \o Flatten(Tail(seqs))

\* what the sources queried for a tier return, joined in the registry's order
QueriedItems(tier, srcs, q) ==
    IF tier \notin q.required_relevance_levels THEN <<>>
    ELSE LET queried == SelectSeq(srcs, LAMBDA x : Retrieves(tier, x, q))
         IN Flatten([k \in 1..Len(queried) |-> Retrieve(tier, queried[k], q)])

\* the first n items of a list: none when n is not positive
FirstItems(its, n) ==
    IF n <= 0 THEN <<>>
    ELSE IF n >= Len(its) THEN its ELSE [k \in 1..n |-> its[k]]

\* a list without its last n items
WithoutLastItems(its, n) ==
    IF n >= Len(its) THEN <<>> ELSE [k \in 1..(Len(its) - n) |-> its[k]]

IdSeq(srcs) == [i \in 1..Len(srcs) |-> srcs[i].source_id]

IsPrefix(a, b) == Len(a) <= Len(b) /\ \A i \in 1..Len(a) : a[i] = b[i]

\* C14, as claimed: each tier list is the first max_items_per_level items of what
\* the tier's queried sources returned, joined in the registry's order.
C14_FirstCapItemsInRegistrationOrder ==
    Returned =>
      \A name \in TierNames :
        TierList(result, name) =
          FirstItems(QueriedItems(TierOfName(name), sources, query),
                     query.max_items_per_level)

\* C14, amended: each tier list is what the tier's queried sources returned, joined
\* in the registry's order, cut to its first max_items_per_level items when
\* max_items_per_level is not negative and stripped of its last
\* -max_items_per_level items when it is; and the registry's order is the order in
\* which the ids were first registered: a register_source call leaves the ids
\* already registered in their places and puts a new id last.
C14_TierListInFirstRegistrationOrder ==
    /\ [](Returned =>
            \A name \in TierNames :
              LET all == QueriedItems(TierOfName(name), sources, query)
                  cap == query.max_items_per_level
              IN TierList(result, name) =
                   IF cap >= 0 THEN FirstItems(all, cap)
                   ELSE WithoutLastItems(all, 0 - cap))
    /\ [][IsPrefix(IdSeq(sources), IdSeq(sources'))]_vars

\* three sources return global items, the first of them registered again under
\* its id after the other defaults, and the cap keeps the first two
C14_Witness ==
    /\ Returned
    /\ query.max_items_per_level = 2
    /\ Len(sources) = 4
    /\ sources[2] = InformationSource("rag_knowledge", "external", TRUE, FALSE, TRUE)
    /\ Len(_query_global(sources, query)) = 3
    /\ Len(result.global_items) = 2
    /\ result.global_items[1].producer = sources[2]
    /\ result.global_items[2].producer = sources[3]

====
